---- MODULE Spec2Model ----
(***************************************************************************)
(* A model of ParticleBeingSystem                                          *)
(* (src/core-files/human-figure/particle-being-library.js): the registry   *)
(* of beings and ambient particles, the four-state lifecycle timer, the    *)
(* point sampler, the opacity smoothing, and the motion of single          *)
(* particles along one axis.                                                *)
(*                                                                         *)
(* Units.  Time is counted in whole seconds.  Math.random() * 2, the       *)
(* jitter of a transition, is a real in [0, 2); on whole-second timers and *)
(* timings the test  stateTimer > timing + jitter  has exactly the         *)
(* outcomes of the integer jitters 0 and 1.  Opacity is counted in         *)
(* thousandths; products by 0.05 and 0.3 are rounded down.                 *)
(* Positions and velocities are counted in thousandths of a unit;         *)
(* products by a factor are rounded toward zero.                            *)
(* Math.random() is an input: every operation that draws random numbers    *)
(* takes the drawn values as parameters.                                    *)
(***************************************************************************)
EXTENDS Integers, Sequences, FiniteSets, TLC

VARIABLES
    beings,           \* this.beings: sequence of being records
    ambientParticles, \* this.ambientParticles: sequence of ambient particle records
    scene,            \* the objects held by this.scene
    visible,          \* mesh.visible of every source mesh
    time,             \* this.time, kept at ClockCap once past it
    error,            \* "none", or the exception the last call raised
    caller,           \* the calling program: the calls it made, the beings it holds
    kin               \* position and velocity of the tracked scene objects

vars == <<beings, ambientParticles, scene, visible, time, error, caller, kin>>

----------------------------------------------------------------------------
(* Bounds of the model *)

MaxBeings == 2
MaxCount == 9
MaxVerts == 5
MaxDt == 5
MaxAmbient == 2
MaxCalls == 5
TimerCap == 8
ClockCap == 15
LongDt == 40

----------------------------------------------------------------------------
(* Small helpers *)

Min(a, b) == IF a < b THEN a ELSE b

Max(a, b) == IF a > b THEN a ELSE b

Abs(x) == IF x < 0 THEN -x ELSE x

Sign(x) == IF x < 0 THEN -1 ELSE IF x > 0 THEN 1 ELSE 0

\* x * num / den, rounded toward zero.
Scale(x, num, den) == Sign(x) * Sign(den) * ((Abs(x) * num) \div Abs(den))

\* Object spread { ...base, ...over }: a shallow merge, key by key.
Merge(base, over) ==
    [k \in (DOMAIN base) \cup (DOMAIN over) |->
        IF k \in DOMAIN over THEN over[k] ELSE base[k]]

----------------------------------------------------------------------------
(* Options *)

states == <<"forming", "stable", "dissolving", "scattered">>

States == {states[i] : i \in 1..Len(states)}

DefaultStateTimings ==
    [s \in States |->
        CASE s = "forming" -> 4
          [] s = "stable" -> 3
          [] s = "dissolving" -> 3
          [] s = "scattered" -> 2]

\* options.attractionForces, in thousandths.
DefaultAttractionForces ==
    [s \in States |->
        CASE s = "forming" -> 40
          [] s = "stable" -> 24
          [] s = "dissolving" -> 8
          [] s = "scattered" -> 4]

\* this.options after construction with no constructor options;
\* turbulenceStrength, oscillationSpeed and speedMultiplier in thousandths.
options ==
    [k \in {"particleCount", "ambientParticleCount", "stateTimings",
            "attractionForces", "turbulenceStrength", "oscillationSpeed",
            "speedMultiplier"} |->
        CASE k = "particleCount" -> 200
          [] k = "speedMultiplier" -> 1000
          [] k = "ambientParticleCount" -> 100
          [] k = "stateTimings" -> DefaultStateTimings
          [] k = "attractionForces" -> DefaultAttractionForces
          [] k = "turbulenceStrength" -> 8
          [] k = "oscillationSpeed" -> 16]

----------------------------------------------------------------------------
(* Source meshes, as extractPointsFromMesh sees them.  null is the missing *)
(* source; the others are objects, each with its own visible flag.         *)

NullMesh == [kind |-> "null", count |-> 0]

Meshes ==
    {[kind |-> k, count |-> 0] : k \in {"noGeometry", "notBuffer", "noPosition"}}
    \cup {[kind |-> "buffer", count |-> v] : v \in 0..MaxVerts}

Sources == {NullMesh} \cup Meshes

----------------------------------------------------------------------------
(* Point sampler *)

\* Iterations of  for (let i = 0; i < n / 2; i++) : ceil(n / 2), none for n <= 0.
HalfLoop(n) == IF n <= 0 THEN 0 ELSE (n + 1) \div 2

\* Math.floor(count * 0.15), Math.floor(count * 0.35), Math.floor(count * 0.25);
\* the integer quotients equal the floating-point results for |count| < 180.
HeadCount(count) == (count * 15) \div 100

TorsoCount(count) == (count * 35) \div 100

ArmCount(count) == (count * 25) \div 100

\* The points of one region: n points, each tagged with its region, its side
\* and, for limbs, the interpolation parameter t = i / (limb / 2 - 1) kept as
\* the fraction tNum / tDen = 2i / (limb - 2).
RegionPoints(region, side, n, limb) ==
    [i \in 1..Max(n, 0) |->
        [region |-> region, side |-> side, i |-> i - 1,
         tNum |-> 2 * (i - 1), tDen |-> limb - 2]]

\* The points pushed before the legs: head, torso and the two arms.
UpperBodyPoints(count) ==
    RegionPoints("head", 0, HeadCount(count), 0)
    \o RegionPoints("torso", 0, TorsoCount(count), 0)
    \o RegionPoints("arm", -1, HalfLoop(ArmCount(count)), ArmCount(count))
    \o RegionPoints("arm", 1, HalfLoop(ArmCount(count)), ArmCount(count))

\* legCount = count - points.length
LegCount(count) == count - Len(UpperBodyPoints(count))

generateHumanSilhouettePoints(count) ==
    UpperBodyPoints(count)
    \o RegionPoints("leg", -1, HalfLoop(LegCount(count)), LegCount(count))
    \o RegionPoints("leg", 1, HalfLoop(LegCount(count)), LegCount(count))

\* step = Math.max(1, Math.floor(positions.count / targetCount)).  A
\* targetCount of 0 makes the quotient Infinity (NaN when the buffer is empty);
\* the loop below runs no iteration then, and the model takes 1.
Step(vertexCount, targetCount) ==
    IF targetCount = 0 THEN 1 ELSE Max(1, vertexCount \div targetCount)

\* The stride loop without its  points.length < targetCount  test.
StrideLenUncapped(vertexCount, targetCount) ==
    IF targetCount <= 0 THEN 0
    ELSE (vertexCount + Step(vertexCount, targetCount) - 1)
             \div Step(vertexCount, targetCount)

\* Iterations of  for (i = 0; i < positions.count && points.length < targetCount; i += step)
StrideLen(vertexCount, targetCount) ==
    IF targetCount <= 0 THEN 0
    ELSE Min(targetCount,
             (vertexCount + Step(vertexCount, targetCount) - 1)
                 \div Step(vertexCount, targetCount))

\* The stride-sampled vertices: indices 0, step, 2 * step, ...
StridePoints(vertexCount, targetCount) ==
    [k \in 1..StrideLen(vertexCount, targetCount) |->
        [region |-> "vertex", i |-> (k - 1) * Step(vertexCount, targetCount)]]

\* Math.floor(Math.random() * points.length) for the draw named pick:
\* "lo" draws 0 every time, "hi" draws just under 1, "mix" varies with n.
RandomIndex(pick, n, len) ==
    CASE pick = "lo" -> 0
      [] pick = "hi" -> len - 1
      [] OTHER -> n % len

Picks == {"lo", "hi", "mix"}

\* while (points.length < targetCount && points.length > 0) push a point
\* interpolated between points[idx1] and points[idx2] (0-based indices).  The
\* k-th point of the result is pushed when points.length is k - 1.
FillInterpolated(points, targetCount, pick) ==
    IF Len(points) < targetCount /\ Len(points) > 0
    THEN [k \in 1..targetCount |->
             IF k <= Len(points) THEN points[k]
             ELSE [region |-> "lerp",
                   idx1 |-> RandomIndex(pick, k - 1, k - 1),
                   idx2 |-> RandomIndex(pick, 2 * k - 1, k - 1)]]
    ELSE points

\* Whether extractPointsFromMesh raises: geometry.attributes.position is
\* undefined and positions.count is read from it.
ExtractThrows(mesh) == mesh.kind = "noPosition"

\* The points extractPointsFromMesh returns when it does not raise.
extractPointsFromMesh(mesh, targetCount, pick) ==
    IF mesh.kind \in {"null", "noGeometry"}
    THEN generateHumanSilhouettePoints(targetCount)
    ELSE LET strided == IF mesh.kind = "buffer"
                        THEN StridePoints(mesh.count, targetCount)
                        ELSE <<>>
             points == FillInterpolated(strided, targetCount, pick)
         IN  IF Len(points) > 0 THEN points
             ELSE generateHumanSilhouettePoints(targetCount)

----------------------------------------------------------------------------
(* Particles.  A scene object is named by a natural number; a new object   *)
(* takes a name no live object has.  A particle record keeps whether       *)
(* applyMouseInfluence has added a force to its velocity; position and     *)
(* velocity themselves are kept in kin, for the objects a specification    *)
(* tracks (see Motion below).                                              *)

TrackedIds ==
    UNION {{beings[b].particles[i].id : i \in DOMAIN beings[b].particles} :
              b \in DOMAIN beings}
    \cup {ambientParticles[i].id : i \in DOMAIN ambientParticles}

\* The first name no live object has.
FreeId ==
    LET live == scene \cup TrackedIds
    IN  IF live = {} THEN 0 ELSE (CHOOSE m \in live : \A x \in live : x <= m) + 1

\* opacity: 0.7 + Math.random() * 0.3, in thousandths; one draw for the
\* particles of odd index and one for those of even index.
OpacityDraws == {700, 850, 999}

DrawAt(draws, i) == draws[1 + (i % 2)]

createParticle(targetPoint, opacity, id) ==
    [id |-> id,
     point |-> targetPoint,
     opacity |-> opacity,
     opacityNaN |-> FALSE,
     originalOpacity |-> opacity,
     pushed |-> FALSE,
     beingIndex |-> 0,
     particleIndex |-> 0]

\* The being built by convertToParticleBeing from the sampled points.
\* The being numbered by this.beings.length after the push, not before it.
NewBeingNumberedAfterPush(mesh, beingOptions, points, draws) ==
    LET first == FreeId IN
    [index |-> Len(beings) + 1,
     state |-> "forming",
     stateTimer |-> 0,
     originalMesh |-> mesh,
     options |-> beingOptions,
     particles |->
        [i \in 1..Len(points) |->
            [createParticle(points[i], DrawAt(draws, i), first + i - 1)
                EXCEPT !.beingIndex = Len(beings) + 1, !.particleIndex = i - 1]]]

NewBeing(mesh, beingOptions, points, draws) ==
    LET first == FreeId IN
    [index |-> Len(beings),
     state |-> "forming",
     stateTimer |-> 0,
     originalMesh |-> mesh,
     options |-> beingOptions,
     particles |->
        [i \in 1..Len(points) |->
            [createParticle(points[i], DrawAt(draws, i), first + i - 1)
                EXCEPT !.beingIndex = Len(beings), !.particleIndex = i - 1]]]

\* convertToParticleBeing without  mesh.visible = false .
convertToParticleBeingNotHiding(mesh, customOptions, pick, draws) ==
    LET beingOptions == Merge(options, customOptions)
        being == NewBeing(mesh, beingOptions,
                     extractPointsFromMesh(mesh, beingOptions["particleCount"], pick),
                     draws)
    IN  /\ UNCHANGED <<time, visible, ambientParticles>>
        /\ IF ExtractThrows(mesh)
           THEN /\ error' = "TypeError"
                /\ UNCHANGED <<beings, scene>>
           ELSE /\ error' = "none"
                /\ scene' = scene \cup
                       {being.particles[i].id : i \in DOMAIN being.particles}
                /\ beings' = Append(beings, being)

\* convertToParticleBeing(mesh, position, customOptions).  pick names the
\* draws of the interpolation indices, draws the opacity draws.
convertToParticleBeing(mesh, customOptions, pick, draws) ==
    LET beingOptions == Merge(options, customOptions)
        being == NewBeing(mesh, beingOptions,
                     extractPointsFromMesh(mesh, beingOptions["particleCount"], pick),
                     draws)
    IN  /\ UNCHANGED time
        /\ IF ExtractThrows(mesh)
           THEN /\ error' = "TypeError"
                /\ UNCHANGED <<beings, ambientParticles, scene, visible>>
           ELSE /\ error' = "none"
                /\ scene' = scene \cup
                       {being.particles[i].id : i \in DOMAIN being.particles}
                /\ visible' = [m \in Meshes |->
                                  IF m = mesh THEN FALSE ELSE visible[m]]
                /\ beings' = Append(beings, being)
                /\ UNCHANGED ambientParticles

\* opacity: 0.1 + Math.random() * 0.2, in thousandths.
AmbientDraws == {100, 200, 299}

\* createAmbientParticles(count); count is <<>> when the argument is omitted
\* (null) and <<n>> when n is passed.  count || this.options.ambientParticleCount
\* takes the default for null and for 0.
AmbientCount(count) ==
    IF count = <<>> \/ count = <<0>> THEN options["ambientParticleCount"]
    ELSE count[1]

createAmbientParticles(count, draws) ==
    LET first == FreeId
        created == [i \in 1..Max(AmbientCount(count), 0) |->
                       [id |-> first + i - 1, opacity |-> DrawAt(draws, i)]]
    IN  /\ ambientParticles' = ambientParticles \o created
        /\ scene' = scene \cup {created[i].id : i \in DOMAIN created}
        /\ error' = "none"
        /\ UNCHANGED <<beings, visible, time>>

----------------------------------------------------------------------------
(* update *)

\* options.stateTimings[state] is a number (not undefined).
TimingDefined(opts, state) == state \in DOMAIN opts["stateTimings"]

\* The transition test with >= in place of > .
TransitionDueAtThreshold(opts, state, timer, jitter) ==
    /\ TimingDefined(opts, state)
    /\ timer >= opts["stateTimings"][state] + jitter

\* userData.stateTimer > currentStateTiming + Math.random() * 2; with an
\* undefined timing the sum is NaN and the comparison is false.
TransitionDue(opts, state, timer, jitter) ==
    /\ TimingDefined(opts, state)
    /\ timer > opts["stateTimings"][state] + jitter

\* states.indexOf(state), 0-based.
IndexOf(state) == (CHOOSE i \in 1..Len(states) : states[i] = state) - 1

\* A successor that skips a state: (currentIndex + 2) % states.length.
NextStateSkipping(state) == states[((IndexOf(state) + 2) % Len(states)) + 1]

\* states[(currentIndex + 1) % states.length]
NextState(state) == states[((IndexOf(state) + 1) % Len(states)) + 1]

\* targetOpacity of the switch on beingData.state, in thousandths.
TargetOpacity(particle, beingData) ==
    CASE beingData.state = "dissolving" ->
            (particle.originalOpacity
                * (beingData.options["stateTimings"]["dissolving"] - beingData.stateTimer))
            \div beingData.options["stateTimings"]["dissolving"]
      [] beingData.state = "scattered" -> (particle.originalOpacity * 3) \div 10
      [] OTHER -> particle.originalOpacity

\* dissolveProgress is NaN: stateTimer / undefined.
TargetIsNaN(beingData) ==
    /\ beingData.state = "dissolving"
    /\ ~TimingDefined(beingData.options, "dissolving")

\* particle.material.opacity += (targetOpacity - particle.material.opacity) * 0.05
SmoothOpacity(opacity, targetOpacity) ==
    opacity + ((targetOpacity - opacity) * 5) \div 100

updateParticle(particle, beingData) ==
    IF particle.opacityNaN \/ TargetIsNaN(beingData)
    THEN [particle EXCEPT !.opacityNaN = TRUE]
    ELSE [particle EXCEPT
             !.opacity = SmoothOpacity(particle.opacity,
                                       TargetOpacity(particle, beingData))]

\* The being's userData after the timer and transition part of updateBeing.
\* A timer past TimerCap is kept at TimerCap: no defined timing plus jitter
\* reaches it, so only a being that can no longer change state gets there.
AdvanceState(being, deltaTime, jitter) ==
    IF TransitionDue(being.options, being.state, being.stateTimer + deltaTime, jitter)
    THEN [being EXCEPT !.state = NextState(being.state), !.stateTimer = 0]
    ELSE [being EXCEPT !.stateTimer = Min(being.stateTimer + deltaTime, TimerCap)]

\* updateBeing that drops the last particle once the being has scattered.
updateBeingDropping(being, deltaTime, jitter) ==
    LET userData == AdvanceState(being, deltaTime, jitter)
        kept == IF userData.state = "scattered"
                THEN Len(being.particles) - 1
                ELSE Len(being.particles)
    IN  [userData EXCEPT
            !.particles = [i \in 1..Max(kept, 0) |->
                              updateParticle(being.particles[i], userData)]]

updateBeing(being, deltaTime, jitter) ==
    LET userData == AdvanceState(being, deltaTime, jitter)
    IN  [userData EXCEPT
            !.particles = [i \in DOMAIN being.particles |->
                              updateParticle(being.particles[i], userData)]]

\* An iteration that also resets the stateTimer of the being after b.
updateBeingAtResettingNext(registry, b, deltaTime, jitter) ==
    [registry EXCEPT
        ![b] = updateBeing(registry[b], deltaTime, jitter[b]),
        ![(b % Len(registry)) + 1].stateTimer = 0]

\* One iteration of  this.beings.forEach(being => this.updateBeing(being, deltaTime)):
\* the registry after being b has been updated.
updateBeingAt(registry, b, deltaTime, jitter) ==
    [registry EXCEPT ![b] = updateBeing(registry[b], deltaTime, jitter[b])]

\* The registry after the beings have been updated one after the other in
\* the order given.
RECURSIVE UpdatedInOrder(_, _, _, _)
UpdatedInOrder(registry, order, deltaTime, jitter) ==
    IF order = <<>> THEN registry
    ELSE UpdatedInOrder(updateBeingAt(registry, Head(order), deltaTime, jitter),
                        Tail(order), deltaTime, jitter)

\* Every order in which the registered beings can be visited.
BeingOrders ==
    {order \in [DOMAIN beings -> DOMAIN beings] :
        \A i, j \in DOMAIN beings : i # j => order[i] # order[j]}

\* pulse = Math.sin(...) * 0.1, in thousandths: the sine at -1, 0 and 1.
PulseDraws == {-100, 0, 100}

\* particle.material.opacity = (0.1 + Math.random() * 0.2) * (1 + pulse)
AmbientOpacity(base, pulse) == (base * (1000 + pulse)) \div 1000

\* updateAmbientParticles with opacity += in place of opacity =.
updateAmbientParticlesAdding(draws, pulses) ==
    [i \in DOMAIN ambientParticles |->
        [ambientParticles[i] EXCEPT
            !.opacity = ambientParticles[i].opacity
                        + AmbientOpacity(DrawAt(draws, i), DrawAt(pulses, i))]]

updateAmbientParticles(draws, pulses) ==
    [i \in DOMAIN ambientParticles |->
        [ambientParticles[i] EXCEPT
            !.opacity = AmbientOpacity(DrawAt(draws, i), DrawAt(pulses, i))]]

\* update(deltaTime): jitter[b] is the jitter drawn for being b.
update(deltaTime, jitter, draws, pulses) ==
    /\ time' = Min(time + deltaTime, ClockCap)
    /\ beings' = [b \in DOMAIN beings |-> updateBeing(beings[b], deltaTime, jitter[b])]
    /\ ambientParticles' = updateAmbientParticles(draws, pulses)
    /\ error' = "none"
    /\ UNCHANGED <<scene, visible>>

----------------------------------------------------------------------------
(* applyMouseInfluence and dispose *)

\* distance < 10 for the particle, positions being inputs: "all" puts every
\* particle within the radius, "even" those of even particleIndex, any other
\* value none.
InRadius(within, particle) ==
    within = "all" \/ (within = "even" /\ particle.particleIndex % 2 = 0)

applyMouseInfluence(within) ==
    /\ beings' =
           [b \in DOMAIN beings |->
               [beings[b] EXCEPT
                   !.particles =
                       [i \in DOMAIN beings[b].particles |->
                           IF InRadius(within, beings[b].particles[i])
                           THEN [beings[b].particles[i] EXCEPT !.pushed = TRUE]
                           ELSE beings[b].particles[i]]]]
    /\ error' = "none"
    /\ UNCHANGED <<ambientParticles, scene, visible, time>>

\* The scene after the scene.remove calls of dispose.
\* dispose without the loop that removes the ambient particles.
SceneAfterDisposeLeavingAmbient ==
    scene \ UNION {{beings[b].particles[i].id : i \in DOMAIN beings[b].particles} :
                       b \in DOMAIN beings}

SceneAfterDispose == scene \ TrackedIds

\* dispose that restores the source of the last registered being only.
VisibleAfterDisposeLastOnly ==
    [m \in Meshes |->
        visible[m] \/ (beings # <<>> /\ beings[Len(beings)].originalMesh = m)]

\* mesh.visible after dispose: true for the originalMesh of every being.
VisibleAfterDispose ==
    [m \in Meshes |->
        visible[m] \/ (\E b \in DOMAIN beings : beings[b].originalMesh = m)]

\* dispose without  this.beings = [] .
disposeKeepingBeings ==
    /\ scene' = SceneAfterDispose
    /\ visible' = VisibleAfterDispose
    /\ ambientParticles' = <<>>
    /\ error' = "none"
    /\ UNCHANGED <<beings, time>>

\* dispose without  this.ambientParticles = [] .
disposeKeepingAmbient ==
    /\ scene' = SceneAfterDispose
    /\ visible' = VisibleAfterDispose
    /\ beings' = <<>>
    /\ error' = "none"
    /\ UNCHANGED <<ambientParticles, time>>

dispose ==
    /\ scene' = SceneAfterDispose
    /\ visible' = VisibleAfterDispose
    /\ beings' = <<>>
    /\ ambientParticles' = <<>>
    /\ error' = "none"
    /\ UNCHANGED time

----------------------------------------------------------------------------
(* Motion.  kin maps the id of a tracked scene object to its motion.  A    *)
(* tracked being particle lies on the vertical axis through the anchor of  *)
(* its being, as do its target and its scattered position, and the mouse   *)
(* is on that axis too (mouseX = 0): position and velocity are their y     *)
(* components, in thousandths of a unit.  A sine or cosine the code takes  *)
(* of a phase or of the clock is an input, in thousandths.  For a tracked *)
(* being, kin maps the number of the being to its transformationPhase and  *)
(* transformationSpeed, in thousandths of a radian.                        *)

\* transformationPhase: Math.random() * Math.PI * 2 (phaseDraw) and
\* transformationSpeed: (0.3 + Math.random() * 0.2) * speedMultiplier, with
\* speedDraw = Math.random() * 0.2.
createBeingPhase(beingOptions, phaseDraw, speedDraw) ==
    [kind |-> "being",
     transformationPhase |-> phaseDraw,
     transformationSpeed |->
         Scale((300 + speedDraw) * beingOptions["speedMultiplier"], 1, 1000)]

\* userData.transformationPhase += userData.transformationSpeed * deltaTime
updateBeingPhase(phase, deltaTime) ==
    [phase EXCEPT
        !.transformationPhase = @ + phase.transformationSpeed * deltaTime]

\* The position, targets and velocity createParticle gives a particle of
\* being number being: scatter is Math.random() * 15, pointY the y of the
\* sampled point, baseY the y of the position argument.
createParticleMotion(being, pointY, baseY, scatter) ==
    [kind |-> "particle",
     being |-> being,
     y |-> scatter,
     vy |-> 0,
     targetY |-> baseY + pointY + 2000,
     scatteredY |-> scatter,
     baseY |-> baseY]

\* options.attractionForces[beingData.state] || 0.02
AttractionForce(opts, state) ==
    IF state \in DOMAIN opts["attractionForces"]
       /\ opts["attractionForces"][state] # 0
    THEN opts["attractionForces"][state]
    ELSE 20

\* targetPos is a number: it is NaN in dissolving without a dissolving timing.
TargetDefined(beingData) == ~TargetIsNaN(beingData)

\* targetPos of the switch on beingData.state; phase is the sine (stable:
\* breathe = sine * 0.1) or cosine (scattered: cosine * 3) of the phase.
TargetY(motion, beingData, phase) ==
    CASE beingData.state = "stable" ->
            Scale(motion.targetY, 1000 + Scale(phase, 1, 10), 1000) + motion.baseY
      [] beingData.state = "dissolving" ->
            motion.targetY
            + Scale((motion.scatteredY - motion.targetY) * beingData.stateTimer,
                    1, beingData.options["stateTimings"]["dissolving"])
      [] beingData.state = "scattered" -> motion.scatteredY + 3 * phase
      [] OTHER -> motion.targetY

\* The velocity after the attraction step: distance > 0.1 is false for NaN.
Attracted(motion, beingData, phase) ==
    IF TargetDefined(beingData)
    THEN LET direction == TargetY(motion, beingData, phase) - motion.y
             distance == Abs(direction)
         IN  IF distance > 100
             THEN motion.vy
                  + Sign(direction)
                    * Scale(AttractionForce(beingData.options, beingData.state)
                              * Min(distance, 5000), 1, 1000)
             ELSE motion.vy
    ELSE motion.vy

\* updateParticle taking targetPosition itself, not a clone of it, as
\* targetPos in the stable case: the scaling and the added anchor stay in it.
updateParticleMotionRetargeting(motion, beingData, waves) ==
    LET attracted == Attracted(motion, beingData, waves.phase)
        damped == Scale(attracted, 95, 100)
        moved == motion.y + damped
    IN  [motion EXCEPT
            !.y = moved,
            !.vy = damped,
            !.targetY = IF beingData.state = "stable"
                        THEN TargetY(motion, beingData, waves.phase)
                        ELSE @]

\* The part of updateParticle that moves the particle: attraction,
\* turbulence, damping, position, oscillation, containment.
updateParticleMotion(motion, beingData, waves) ==
    LET attracted == Attracted(motion, beingData, waves.phase)
        turbulent == attracted
                     + Scale(waves.turbulence
                               * beingData.options["turbulenceStrength"], 1, 1000)
        damped == Scale(turbulent, 95, 100)
        moved == motion.y + damped + Scale(waves.oscillation, 50, 1000)
        pullBack == IF Abs(moved - motion.baseY) > 25000
                    THEN 10 * Sign(motion.baseY - moved)
                    ELSE 0
    IN  [motion EXCEPT !.y = moved, !.vy = damped + pullBack]

\* mouseInfluence = (mouseX * 2, mouseY * 2, 0), mouseY in thousandths.
MouseInfluenceY(mouseY) == 2 * mouseY

\* The point distances are measured from:
\* (mouseInfluence.x * 10, mouseInfluence.y * 10 + 5, 0).
MouseCentreY(mouseY) == 10 * MouseInfluenceY(mouseY) + 5000

\* distance < 10
MouseReaches(motion, mouseY) == Abs(motion.y - MouseCentreY(mouseY)) < 10000

\* The part of applyMouseInfluence that changes a velocity:
\* force = normalize(mouseInfluence - position) * 0.01 * strength.
applyMouseInfluenceMotion(motion, mouseY, strength) ==
    IF MouseReaches(motion, mouseY)
    THEN [motion EXCEPT
             !.vy = @ + Sign(MouseInfluenceY(mouseY) - motion.y) * 10 * strength]
    ELSE motion

\* The motion createAmbientParticles gives an ambient particle: x and y of
\* position, velocity and drift (z is treated by the code as x is), each
\* drawn within the range the code draws it from.
createAmbientMotion(draw) ==
    [kind |-> "ambient",
     x |-> draw.x, y |-> draw.y,
     vx |-> draw.vx, vy |-> draw.vy,
     dx |-> draw.dx, dy |-> draw.dy]

\* A wrap that keeps the particle at the side it left by.
WrapXClamping(x) ==
    IF x > 30000 THEN 30000 ELSE IF x < -30000 THEN -30000 ELSE x

\* if (x > 30) x = -30; if (x < -30) x = 30;
WrapX(x) ==
    IF x > 30000 THEN -30000 ELSE IF x < -30000 THEN 30000 ELSE x

\* if (y > 20) y = 0; if (y < 0) y = 20;
WrapY(y) ==
    IF y > 20000 THEN 0 ELSE IF y < 0 THEN 20000 ELSE y

\* The part of updateAmbientParticles that moves a particle: drift, move,
\* damping, wrap.
updateAmbientMotion(motion) ==
    [motion EXCEPT
        !.x = WrapX(motion.x + motion.vx + motion.dx),
        !.y = WrapY(motion.y + motion.vy + motion.dy),
        !.vx = Scale(motion.vx + motion.dx, 98, 100),
        !.vy = Scale(motion.vy + motion.dy, 98, 100)]

----------------------------------------------------------------------------
(* Inputs *)

\* customOptions of convertToParticleBeing.
CountOption(n) == [k \in {"particleCount"} |-> n]

TimingsOption(timings) == [k \in {"stateTimings"} |-> timings]

\* stateTimings overrides: all four states at 1 s, and forming alone.
FastTimings == [s \in States |-> 1]

FormingOnlyTimings == [s \in {"forming"} |-> 1]

NoOptions == [k \in {} |-> 0]

\* The jitters of one update call, one for each registered being.
Jitters == [DOMAIN beings -> {0, 1}]

Init ==
    /\ beings = <<>>
    /\ ambientParticles = <<>>
    /\ scene = {}
    /\ visible = [m \in Meshes |-> TRUE]
    /\ time = 0
    /\ error = "none"
    /\ caller = [log |-> <<>>, released |-> <<>>]
    /\ kin = <<>>

\* A call in a specification that keeps no log of the calls and tracks the
\* motion of no object.
Untracked == UNCHANGED <<caller, kin>>

----------------------------------------------------------------------------
(* Spec: the registry.  Beings of two particles over a few sources,        *)
(* ambient particles, updates until the clock reaches ClockCap, dispose.   *)

RegistrySources ==
    {NullMesh} \cup
    {[kind |-> "buffer", count |-> 1], [kind |-> "noGeometry", count |-> 0],
     [kind |-> "noPosition", count |-> 0]}

Convert ==
    /\ Len(beings) < MaxBeings
    /\ \E mesh \in RegistrySources :
           convertToParticleBeing(mesh, CountOption(mesh.count + 1), "lo", <<999, 999>>)
    /\ Untracked

CreateAmbient ==
    \E n \in 1..MaxAmbient :
        /\ Len(ambientParticles) + n <= MaxAmbient
        /\ createAmbientParticles(<<n>>, <<100, 299>>)
        /\ Untracked

Update ==
    \E deltaTime \in {MaxDt}, jitter \in Jitters :
        /\ time + deltaTime <= ClockCap
        /\ update(deltaTime, jitter, <<200, 200>>, <<0, 100>>)
        /\ Untracked

MouseInfluence == \E within \in {"even"} : applyMouseInfluence(within) /\ Untracked

Dispose == dispose /\ Untracked

Next == Convert \/ CreateAmbient \/ Update \/ MouseInfluence \/ Dispose

Spec == Init /\ [][Next]_vars

----------------------------------------------------------------------------
(* Claims checked under Spec *)

\* C3: no step changes the number of particles of a registered being: the
\* count of every being that stays registered is the one it was created with,
\* across update, applyMouseInfluence, createAmbientParticles and further
\* convertToParticleBeing calls.
C3_ParticleCountConserved ==
    [][\A b \in (DOMAIN beings) \cap (DOMAIN beings') :
          Len(beings'[b].particles) = Len(beings[b].particles)]_vars

\* C3 witness: two beings with particles are registered, ambient particles
\* exist, an update has moved a timer and a mouse force has been applied.
C3_Witness ==
    /\ Len(beings) = 2
    /\ \A b \in DOMAIN beings : Len(beings[b].particles) = 2
    /\ \E b \in DOMAIN beings : beings[b].state = "scattered"
    /\ \E b \in DOMAIN beings : beings[b].particles[1].pushed
    /\ ambientParticles # <<>>

\* C10: every dispose step ends with both collections empty, no engine-created
\* object in the scene and every source mesh visible.
C10_DisposeReleasesAll ==
    [][dispose =>
          /\ beings' = <<>>
          /\ ambientParticles' = <<>>
          /\ scene' = {}
          /\ \A m \in Meshes : visible'[m]]_vars

\* C10 witness: the state dispose is called in holds two beings made from two
\* different hidden sources, ambient particles, and has been updated.
C10_Witness ==
    /\ Len(beings) = 2
    /\ beings[1].originalMesh # beings[2].originalMesh
    /\ \A b \in DOMAIN beings :
           beings[b].originalMesh \in Meshes /\ ~visible[beings[b].originalMesh]
    /\ ambientParticles # <<>>
    /\ time > 0
    /\ Cardinality(scene) >= 5

\* C12: the source of every registered being is hidden, from the return of
\* convertToParticleBeing on and across every later update,
\* applyMouseInfluence, createAmbientParticles and convertToParticleBeing call;
\* a being is registered in state forming with stateTimer 0; and a hidden
\* source becomes visible again in a dispose call only.
C12_VisibilityHandoff ==
    /\ [](\A b \in DOMAIN beings :
             beings[b].originalMesh \in Meshes => ~visible[beings[b].originalMesh])
    /\ [][\A b \in (DOMAIN beings') \ (DOMAIN beings) :
             beings'[b].state = "forming" /\ beings'[b].stateTimer = 0]_vars
    /\ [][\A m \in Meshes :
             (~visible[m] /\ visible'[m]) => (dispose /\ beings' = <<>>)]_vars

\* C12 witness: a source was handed over twice; the being made first has
\* been updated into a later state and pushed by the mouse, the second was
\* registered after it, ambient particles were created, and the source is
\* still hidden.
C12_Witness ==
    /\ Len(beings) = 2
    /\ beings[1].originalMesh = [kind |-> "buffer", count |-> 1]
    /\ beings[2].originalMesh = beings[1].originalMesh
    /\ ~visible[beings[1].originalMesh]
    /\ beings[1].state = "dissolving"
    /\ beings[2].state = "forming"
    /\ beings[2].stateTimer = 0
    /\ beings[1].particles[1].pushed
    /\ ambientParticles # <<>>

----------------------------------------------------------------------------
(* LifeSpec: the lifecycle.  One being of one particle made with the default *)
(* timings, with all four timings overridden and with an override naming   *)
(* forming alone; updates of 0 s, 1 s and LongDt s, without end.           *)

LifeOptions ==
    {CountOption(1),
     Merge(CountOption(1), TimingsOption(FastTimings)),
     Merge(CountOption(1), TimingsOption(FormingOnlyTimings))}

LifeConvert ==
    /\ beings = <<>>
    /\ \E customOptions \in LifeOptions :
           convertToParticleBeing([kind |-> "buffer", count |-> 1], customOptions,
                                  "lo", <<999, 999>>)
    /\ Untracked

\* update(deltaTime), over every jitter.
LifeUpdateWith(deltaTime) ==
    \E jitter \in Jitters :
        update(deltaTime, jitter, <<200, 200>>, <<0, 0>>) /\ Untracked

LifeDts == {0, 1, LongDt}

LifeUpdate == \E deltaTime \in LifeDts : LifeUpdateWith(deltaTime)

LifeNext == LifeConvert \/ LifeUpdate

LifeSpec == Init /\ [][LifeNext]_vars

----------------------------------------------------------------------------
(* FairLifeSpec: the lifecycle under a render loop that never stops: the   *)
(* beings of LifeSpec beside one ambient particle, and update called again *)
(* and again with a positive deltaTime.                                    *)

FairConvert == LifeConvert

FairCreateAmbient ==
    /\ ambientParticles = <<>>
    /\ createAmbientParticles(<<1>>, <<100, 100>>)
    /\ Untracked

PositiveUpdate ==
    \E deltaTime \in {1, LongDt}, jitter \in Jitters,
       draws \in {<<100, 100>>, <<200, 200>>} :
        update(deltaTime, jitter, draws, <<0, 0>>) /\ Untracked

FairLifeNext == FairConvert \/ FairCreateAmbient \/ PositiveUpdate

FairLifeSpec == Init /\ [][FairLifeNext]_vars /\ WF_vars(PositiveUpdate)

----------------------------------------------------------------------------
(* Claims checked under LifeSpec and FairLifeSpec *)

\* The cycle forming -> stable -> dissolving -> scattered -> forming.
CycleSteps ==
    {<<"forming", "stable">>, <<"stable", "dissolving">>,
     <<"dissolving", "scattered">>, <<"scattered", "forming">>}

\* C1: the state of every being is always one of the four states, a being
\* is registered in state forming, and one update call either keeps the state
\* or moves it to its immediate successor in the cycle, whatever deltaTime is.
C1_StateCycle ==
    /\ [](\A b \in DOMAIN beings :
             beings[b].state \in {"forming", "stable", "dissolving", "scattered"})
    /\ [][\A b \in DOMAIN beings' :
             IF b \in DOMAIN beings
             THEN \/ beings'[b].state = beings[b].state
                  \/ <<beings[b].state, beings'[b].state>> \in CycleSteps
             ELSE beings'[b].state = "forming"]_vars

\* C1 witness: a being with the default timings has been taken through
\* forming, stable and dissolving to scattered by updates that include LongDt.
C1_Witness ==
    /\ beings # <<>>
    /\ beings[1].options["stateTimings"] = DefaultStateTimings
    /\ beings[1].state = "scattered"
    /\ time = ClockCap

\* C15: in an update(deltaTime) call, a being whose state has a configured
\* duration changes state only if stateTimer + deltaTime exceeds that duration,
\* and does change state if stateTimer + deltaTime exceeds the duration plus 2
\* seconds; a being that changes state has its stateTimer reset to 0, one that
\* does not has its stateTimer grown by exactly deltaTime.
C15_TransitionTiming ==
    [][\A deltaTime \in LifeDts : LifeUpdateWith(deltaTime) =>
          \A b \in DOMAIN beings :
              LET s == beings[b].state
                  timings == beings[b].options["stateTimings"]
                  timer == beings[b].stateTimer + deltaTime
                  changed == beings'[b].state # s
              IN  s \in DOMAIN timings =>
                      /\ changed => timer > timings[s]
                      /\ timer > timings[s] + 2 => changed
                      /\ changed => beings'[b].stateTimer = 0
                      /\ ~changed => beings'[b].stateTimer = timer]_vars

\* C15 witness: a being with the default timings is still forming with its
\* stateTimer past the 4 s of forming: the jitter drawn at the last update
\* held the transition back.
C15_Witness ==
    /\ beings # <<>>
    /\ beings[1].options["stateTimings"] = DefaultStateTimings
    /\ beings[1].state = "forming"
    /\ beings[1].stateTimer = DefaultStateTimings["forming"] + 1

\* C2 (as claimed): under repeated updates with deltaTime > 0 every being
\* visits each of the four states infinitely often.
C2_VisitsAllStatesForever ==
    \A s \in {"forming", "stable", "dissolving", "scattered"} :
        []<>(beings = <<>> \/ beings[1].state = s)

\* The same for the beings whose stateTimings name all four states.
FullTimingsVisitAllStatesForever ==
    \A s \in {"forming", "stable", "dissolving", "scattered"} :
        []<>(\/ beings = <<>>
             \/ DOMAIN beings[1].options["stateTimings"] # States
             \/ beings[1].state = s)

\* C4 (as claimed): after every update the opacity of every particle of every
\* being is a number between 0 and 1 (0 and 1000 thousandths).
C4_ParticleOpacityInBounds ==
    \A b \in DOMAIN beings : \A i \in DOMAIN beings[b].particles :
        /\ ~beings[b].particles[i].opacityNaN
        /\ 0 <= beings[b].particles[i].opacity
        /\ beings[b].particles[i].opacity <= 1000

\* The upper half of C4 alone.
ParticleOpacityAtMostOne ==
    \A b \in DOMAIN beings : \A i \in DOMAIN beings[b].particles :
        beings[b].particles[i].opacity <= 1000

----------------------------------------------------------------------------
(* AmbientSpec: the ambient field.  createAmbientParticles with the count   *)
(* omitted, 0, negative and positive, and updates over every pair of draws *)
(* of the base opacity, with the pulse at its extremes.                     *)

AmbientCounts == {<<>>} \cup {<<n>> : n \in (-1)..MaxAmbient}

DrawPairs(draws) == {<<x, y>> : x \in draws, y \in draws}

\* createAmbientParticles(count), over every pair of draws.
AmbientCreateWith(count) ==
    /\ Len(ambientParticles) < MaxAmbient
    /\ \E draws \in DrawPairs(AmbientDraws) : createAmbientParticles(count, draws)
    /\ Untracked

AmbientCreate == \E count \in AmbientCounts : AmbientCreateWith(count)

AmbientUpdate ==
    \E deltaTime \in {0, MaxDt}, draws \in DrawPairs(AmbientDraws),
       pulses \in {<<0, 0>>, <<-100, 100>>, <<100, -100>>} :
        update(deltaTime, <<>>, draws, pulses) /\ Untracked

AmbientNext == AmbientCreate \/ AmbientUpdate

AmbientSpec == Init /\ [][AmbientNext]_vars

\* C5: the opacity of every ambient particle, at creation and after every
\* update, is between 0 and 1 (0 and 1000 thousandths).
C5_AmbientOpacityInBounds ==
    \A i \in DOMAIN ambientParticles :
        /\ 0 <= ambientParticles[i].opacity
        /\ ambientParticles[i].opacity <= 1000

\* C5 witness: after updates, one ambient particle is at the largest opacity
\* an update can give (base just under 0.3, pulse 0.1) and another at the
\* smallest (base 0.1, pulse -0.1).
C5_Witness ==
    /\ time > 0
    /\ \E i \in DOMAIN ambientParticles :
           ambientParticles[i].opacity = (299 * 1100) \div 1000
    /\ \E i \in DOMAIN ambientParticles :
           ambientParticles[i].opacity = (100 * 900) \div 1000

\* C22 (as claimed): createAmbientParticles(count) adds exactly count
\* particles to the collection and to the scene for every passed count >= 0,
\* and exactly ambientParticleCount when count is omitted; the particles of
\* earlier calls are kept, and update removes no ambient particle.
C22_AmbientCountExact ==
    [][/\ \A count \in AmbientCounts :
            (AmbientCreateWith(count) /\ (count = <<>> \/ count[1] >= 0)) =>
                LET n == IF count = <<>> THEN 100 ELSE count[1]
                IN  /\ Len(ambientParticles') = Len(ambientParticles) + n
                    /\ Cardinality(scene') = Cardinality(scene) + n
                    /\ \A i \in DOMAIN ambientParticles :
                          ambientParticles'[i] = ambientParticles[i]
       /\ AmbientUpdate =>
             /\ Len(ambientParticles') = Len(ambientParticles)
             /\ scene' = scene]_vars

\* The same for the passed counts >= 1 and the omitted count.
PositiveAmbientCountExact ==
    [][/\ \A count \in AmbientCounts :
            (AmbientCreateWith(count) /\ (count = <<>> \/ count[1] >= 1)) =>
                LET n == IF count = <<>> THEN 100 ELSE count[1]
                IN  /\ Len(ambientParticles') = Len(ambientParticles) + n
                    /\ Cardinality(scene') = Cardinality(scene) + n
                    /\ \A i \in DOMAIN ambientParticles :
                          ambientParticles'[i] = ambientParticles[i]
       /\ AmbientUpdate =>
             /\ Len(ambientParticles') = Len(ambientParticles)
             /\ scene' = scene]_vars

----------------------------------------------------------------------------
(* SampleSpec: the point sampler, through convertToParticleBeing into an   *)
(* empty registry: every source shape, particle counts from -2 to MaxCount, *)
(* 64, and the default count of 200.                                        *)

SampleOptions ==
    {NoOptions} \cup {CountOption(n) : n \in ((-2)..MaxCount) \cup {64}}

SampleConvert ==
    /\ beings = <<>>
    /\ \E mesh \in Sources, customOptions \in SampleOptions, pick \in Picks :
           convertToParticleBeing(mesh, customOptions, pick, <<999, 999>>)
    /\ Untracked

SampleDispose == beings # <<>> /\ dispose /\ Untracked

SampleNext == SampleConvert \/ SampleDispose

SampleSpec == Init /\ [][SampleNext]_vars

\* The sampled points of being b, in order.
PointsOf(b) == [i \in DOMAIN beings[b].particles |-> beings[b].particles[i].point]

RequestedCount(b) == beings[b].options["particleCount"]

\* C6 (as claimed): a being made without a usable source and with
\* particleCount = n >= 1 has exactly n particles.
C6_ProceduralCountExact ==
    \A b \in DOMAIN beings :
        (beings[b].originalMesh = NullMesh /\ RequestedCount(b) >= 1)
            => Len(beings[b].particles) = RequestedCount(b)

\* C7: for a vertex buffer of V >= 1 vertices and a count >= 1 the sampler
\* returns exactly count points: first the vertices 0, step, 2 * step, ... with
\* step = max(1, floor(V / count)), until count are collected or the buffer is
\* exhausted, then points interpolated between two points collected before.
C7_StrideSampleExact ==
    \A b \in DOMAIN beings :
        LET mesh == beings[b].originalMesh
            count == RequestedCount(b)
            points == PointsOf(b)
            step == IF mesh.count \div count > 1 THEN mesh.count \div count ELSE 1
        IN  (mesh.kind = "buffer" /\ mesh.count >= 1 /\ count >= 1) =>
                /\ Len(points) = count
                /\ \E m \in 1..count :
                      /\ \A k \in 1..m :
                            /\ points[k].region = "vertex"
                            /\ points[k].i = (k - 1) * step
                            /\ points[k].i < mesh.count
                      /\ m = count \/ m * step >= mesh.count
                      /\ \A k \in (m + 1)..count :
                            /\ points[k].region = "lerp"
                            /\ points[k].idx1 \in 0..(k - 2)
                            /\ points[k].idx2 \in 0..(k - 2)

\* C7 witness: a buffer of 5 vertices sampled with count 2 (step 2, the buffer
\* not exhausted) is registered.
C7_Witness ==
    /\ beings # <<>>
    /\ beings[1].originalMesh = [kind |-> "buffer", count |-> 5]
    /\ RequestedCount(1) = 2
    /\ Len(beings[1].particles) = 2
    /\ beings[1].particles[2].point.i = 2

\* A sparse buffer: 2 vertices for a count of 5, three points interpolated.
SparseBufferSampled ==
    /\ beings # <<>>
    /\ beings[1].originalMesh = [kind |-> "buffer", count |-> 2]
    /\ RequestedCount(1) = 5
    /\ beings[1].particles[5].point.region = "lerp"
    /\ beings[1].particles[5].point.idx1 = 3

\* C8 (as claimed): a being made with particleCount <= 0 has exactly one
\* particle, whatever the source.
C8_NonPositiveCountClampedToOne ==
    \A b \in DOMAIN beings :
        RequestedCount(b) <= 0 => Len(beings[b].particles) = 1

\* C9 (as claimed): sampling raises no error for any shape of source, and a
\* source without usable vertices gives the procedural generator's points.
C9_SamplingNeverThrows ==
    /\ error = "none"
    /\ \A b \in DOMAIN beings :
          (beings[b].originalMesh.kind # "buffer" \/ beings[b].originalMesh.count = 0)
              => PointsOf(b) = generateHumanSilhouettePoints(RequestedCount(b))

\* The second half of C9 alone.
UnusableSourceFallsBack ==
    \A b \in DOMAIN beings :
        (beings[b].originalMesh.kind # "buffer" \/ beings[b].originalMesh.count = 0)
            => PointsOf(b) = generateHumanSilhouettePoints(RequestedCount(b))

\* C29: in every reachable state the objects the engine has added to the
\* scene and not removed are exactly the particles of the registered beings
\* and the ambient particles.
C29_SceneIsTracked ==
    scene = UNION {{beings[b].particles[i].id : i \in DOMAIN beings[b].particles} :
                      b \in DOMAIN beings}
            \cup {ambientParticles[i].id : i \in DOMAIN ambientParticles}

\* C29 witness: a conversion has just thrown in a system that holds a being
\* of two particles and ambient particles and has been updated.
C29_Witness ==
    /\ error = "TypeError"
    /\ Len(beings) = 1
    /\ Len(beings[1].particles) = 2
    /\ Len(ambientParticles) = MaxAmbient
    /\ time > 0
    /\ Cardinality(scene) = 2 + MaxAmbient

\* The limb points of being b: the points of its arms and legs.
LimbPoints(b) ==
    {i \in DOMAIN beings[b].particles :
        "region" \in DOMAIN PointsOf(b)[i] /\ PointsOf(b)[i].region \in {"arm", "leg"}}

\* C30 (as claimed): for every count >= 1 the interpolation parameter
\* t = i / (n / 2 - 1) of every arm and leg point of the procedural figure is
\* computed with a divisor other than zero, so every point has defined,
\* finite coordinates.
C30_LimbParameterDefined ==
    \A b \in DOMAIN beings :
        RequestedCount(b) >= 1 =>
            \A i \in LimbPoints(b) : PointsOf(b)[i].tDen # 0

\* Where the divisor is zero: in the limbs of two segments, whose only
\* point on each side has t = 0 / 0; every other limb point has a divisor
\* other than zero.
LimbParameterUndefinedForTwoSegments ==
    \A b \in DOMAIN beings :
        RequestedCount(b) >= 1 =>
            \A i \in LimbPoints(b) :
                LET point == PointsOf(b)[i]
                    n == IF point.region = "arm" THEN ArmCount(RequestedCount(b))
                         ELSE LegCount(RequestedCount(b))
                IN  /\ point.tDen = 0 <=> n = 2
                    /\ point.tDen = 0 => point.tNum = 0

\* A procedural figure all of whose limb points are defined, arms included.
DefinedLimbsReached ==
    \E b \in DOMAIN beings :
        /\ \E i \in LimbPoints(b) : PointsOf(b)[i].region = "arm"
        /\ \E i \in LimbPoints(b) : PointsOf(b)[i].region = "leg"
        /\ \A i \in LimbPoints(b) : PointsOf(b)[i].tDen # 0

----------------------------------------------------------------------------
(* LoggedSpec: the calling program.  It makes at most MaxCalls calls, in   *)
(* any order, keeps the log of them, and keeps the being objects that      *)
(* convertToParticleBeing returned to it after dispose has emptied the     *)
(* registry.                                                               *)

Logged(call) == [caller EXCEPT !.log = Append(@, call)]

LoggedConvert ==
    /\ Len(caller.log) < MaxCalls
    /\ Len(beings) < MaxBeings
    /\ \E mesh \in {NullMesh, [kind |-> "buffer", count |-> 1]} :
           convertToParticleBeing(mesh, CountOption(1), "lo", <<999, 999>>)
    /\ caller' = Logged("convertToParticleBeing")
    /\ UNCHANGED kin

LoggedCreateAmbient ==
    /\ Len(caller.log) < MaxCalls
    /\ Len(ambientParticles) < MaxAmbient
    /\ createAmbientParticles(<<1>>, <<100, 299>>)
    /\ caller' = Logged("createAmbientParticles")
    /\ UNCHANGED kin

LoggedUpdate ==
    /\ Len(caller.log) < MaxCalls
    /\ \E jitter \in Jitters : update(MaxDt, jitter, <<200, 200>>, <<0, 100>>)
    /\ caller' = Logged("update")
    /\ UNCHANGED kin

LoggedMouseInfluence ==
    /\ Len(caller.log) < MaxCalls
    /\ applyMouseInfluence("all")
    /\ caller' = Logged("applyMouseInfluence")
    /\ UNCHANGED kin

\* dispose drops the registry's references; the caller's are left.
LoggedDispose ==
    /\ Len(caller.log) < MaxCalls
    /\ dispose
    /\ caller' = [log |-> Append(caller.log, "dispose"),
                  released |-> caller.released \o beings]
    /\ UNCHANGED kin

LoggedNext ==
    \/ LoggedConvert
    \/ LoggedCreateAmbient
    \/ LoggedUpdate
    \/ LoggedMouseInfluence
    \/ LoggedDispose

LoggedSpec == Init /\ [][LoggedNext]_vars

\* The last call made was call.
LastCall(call) == caller.log # <<>> /\ caller.log[Len(caller.log)] = call

\* dispose has been called and nothing has been created since.
Disposed ==
    \E k \in DOMAIN caller.log :
        /\ caller.log[k] = "dispose"
        /\ \A j \in (k + 1)..Len(caller.log) :
               caller.log[j] \in {"dispose", "update", "applyMouseInfluence"}

\* C11: dispose is idempotent: every dispose call raises no error and leaves
\* both collections empty, and a dispose call that directly follows another
\* changes nothing: collections, scene contents, source visibility, clock
\* and the being objects the caller holds are as the first call left them.
C11_DisposeIdempotent ==
    [][caller'.log = Append(caller.log, "dispose") =>
          /\ error' = "none"
          /\ beings' = <<>>
          /\ ambientParticles' = <<>>
          /\ LastCall("dispose") =>
                 /\ UNCHANGED <<beings, ambientParticles, scene, visible, time, error>>
                 /\ caller'.released = caller.released]_vars

\* C11 witness: dispose has been called twice in a row on an engine that held
\* a being made from a source, an ambient particle, and had been updated.
C11_Witness ==
    /\ caller.log = <<"convertToParticleBeing", "createAmbientParticles",
                      "update", "dispose", "dispose">>
    /\ Len(caller.released) = 1
    /\ caller.released[1].originalMesh \in Meshes
    /\ visible[caller.released[1].originalMesh]
    /\ scene = {}

\* C13: update and applyMouseInfluence called after dispose raise no error
\* and change no being (the registry stays empty, the being objects made
\* before stay as dispose left them), no ambient particle, no source
\* visibility and no scene content.
C13_CallsAfterDisposeAreNoOps ==
    [][(/\ Disposed
        /\ \/ caller'.log = Append(caller.log, "update")
           \/ caller'.log = Append(caller.log, "applyMouseInfluence")) =>
          /\ error' = "none"
          /\ beings' = <<>>
          /\ ambientParticles' = <<>>
          /\ caller'.released = caller.released
          /\ UNCHANGED <<scene, visible>>]_vars

\* C13 witness: a being was made and updated, dispose was called, and update
\* and applyMouseInfluence were called after it.
C13_Witness ==
    /\ caller.log = <<"convertToParticleBeing", "update", "dispose",
                      "update", "applyMouseInfluence">>
    /\ Len(caller.released) = 1
    /\ caller.released[1].state = "stable"
    /\ ~caller.released[1].particles[1].pushed
    /\ time = 2 * MaxDt

----------------------------------------------------------------------------
(* KinSpec: one being and its first particle in motion.  The being is made  *)
(* first, without a source or from a one-vertex buffer whose vertex is on   *)
(* the vertical axis, at an anchor on that axis; the caller then makes up   *)
(* to MaxCalls calls of update and applyMouseInfluence.  The clock is the   *)
(* simulated time since the being was made.                                 *)

\* y of the position argument, of the buffer's vertex, and Math.random() * 15.
Anchors == {0, -15000}

VertexYs == {0, 40000}

ScatterDraws == {3000, 14999}

\* The sines of one update call: all at 0, or all at 1.
KinWaves ==
    {[phase |-> w, turbulence |-> w, oscillation |-> w] : w \in {0, 1000}}

KinConvert ==
    /\ beings = <<>>
    /\ caller.log = <<>>
    /\ \/ /\ convertToParticleBeing(NullMesh, CountOption(1), "lo", <<999, 999>>)
          /\ UNCHANGED kin
       \/ \E baseY \in Anchors, pointY \in VertexYs, scatter \in ScatterDraws :
             /\ convertToParticleBeing([kind |-> "buffer", count |-> 1],
                                       CountOption(1), "lo", <<999, 999>>)
             /\ kin' = [id \in {FreeId} |->
                           createParticleMotion(Len(beings) + 1, pointY, baseY, scatter)]
    /\ caller' = Logged("convertToParticleBeing")

KinDts == {0, 2, MaxDt}

\* update(deltaTime), over every jitter and every sine.
KinUpdateWith(deltaTime) ==
    /\ beings # <<>>
    /\ Len(caller.log) < MaxCalls
    /\ \E jitter \in Jitters, waves \in KinWaves :
           /\ update(deltaTime, jitter, <<200, 200>>, <<0, 0>>)
           /\ kin' = [id \in DOMAIN kin |->
                         updateParticleMotion(kin[id], beings'[kin[id].being], waves)]
    /\ caller' = Logged("update")

KinUpdate == \E deltaTime \in KinDts : KinUpdateWith(deltaTime)

\* mouseY in thousandths, strength in units.
MouseYs == {0, 500}

Strengths == {1, 2}

\* applyMouseInfluence(0, mouseY, strength): the particles within the radius
\* are the tracked ones the mouse reaches; where none is tracked, all or none.
KinMouseWith(mouseY, strength) ==
    /\ beings # <<>>
    /\ Len(caller.log) < MaxCalls
    /\ \E within \in {"all", "none"} :
           /\ \A id \in DOMAIN kin : MouseReaches(kin[id], mouseY) <=> within = "all"
           /\ applyMouseInfluence(within)
    /\ kin' = [id \in DOMAIN kin |->
                  applyMouseInfluenceMotion(kin[id], mouseY, strength)]
    /\ caller' = Logged("applyMouseInfluence")

KinMouse == \E mouseY \in MouseYs, strength \in Strengths : KinMouseWith(mouseY, strength)

KinNext == KinConvert \/ KinUpdate \/ KinMouse

KinSpec == Init /\ [][KinNext]_vars

----------------------------------------------------------------------------
(* Claims checked under KinSpec *)

\* C14 (as claimed): update(0) raises no error and leaves the clock, the
\* state and stateTimer of every being, and the position and velocity of
\* every being particle unchanged.
C14_UpdateZeroIsNoOp ==
    [][KinUpdateWith(0) =>
          /\ error' = "none"
          /\ time' = time
          /\ \A b \in DOMAIN beings :
                /\ beings'[b].state = beings[b].state
                /\ beings'[b].stateTimer = beings[b].stateTimer
          /\ \A id \in DOMAIN kin :
                /\ kin'[id].y = kin[id].y
                /\ kin'[id].vy = kin[id].vy]_vars

\* The part of C14 about error and clock alone.
UpdateZeroKeepsClock ==
    [][KinUpdateWith(0) => error' = "none" /\ time' = time]_vars

\* The part of C14 about state and stateTimer alone.
UpdateZeroKeepsState ==
    [][KinUpdateWith(0) =>
          \A b \in DOMAIN beings :
              /\ beings'[b].state = beings[b].state
              /\ beings'[b].stateTimer = beings[b].stateTimer]_vars

\* The part of C14 about position and velocity alone.
UpdateZeroKeepsMotion ==
    [][KinUpdateWith(0) =>
          \A id \in DOMAIN kin :
              kin'[id].y = kin[id].y /\ kin'[id].vy = kin[id].vy]_vars

\* C16 (as claimed): a being made without a source, with the anchor at the
\* origin, is in state stable once the simulated time since it was made
\* equals stateTimings.forming.
C16_StableAfterFormingSeconds ==
    \A b \in DOMAIN beings :
        (/\ beings[b].originalMesh = NullMesh
         /\ time = beings[b].options["stateTimings"]["forming"])
            => beings[b].state = "stable"

\* The same two seconds later: the jitter is below 2 s.
StableAfterFormingAndJitter ==
    \A b \in DOMAIN beings :
        (/\ beings[b].originalMesh = NullMesh
         /\ time = beings[b].options["stateTimings"]["forming"] + 2)
            => beings[b].state = "stable"

\* C17 (as claimed): there is one influence point such that an
\* applyMouseInfluence call adds, to the velocity of each particle within the
\* radius 10 of that point, a vector of length 0.01 * strength directed from
\* the particle toward that point, and leaves the velocity of every other
\* particle, and every position, target, opacity, state and timer, unchanged.
C17_ForceTowardInfluencePoint ==
    [][\A mouseY \in MouseYs, strength \in Strengths :
          KinMouseWith(mouseY, strength) =>
              /\ \E point \in {MouseInfluenceY(mouseY), MouseCentreY(mouseY)} :
                    \A id \in DOMAIN kin :
                        IF Abs(kin[id].y - point) < 10000
                        THEN kin'[id].vy
                               = kin[id].vy + Sign(point - kin[id].y) * 10 * strength
                        ELSE kin'[id].vy = kin[id].vy
              /\ \A id \in DOMAIN kin :
                    kin'[id] = [kin[id] EXCEPT !.vy = kin'[id].vy]
              /\ \A b \in DOMAIN beings :
                    /\ beings'[b].state = beings[b].state
                    /\ beings'[b].stateTimer = beings[b].stateTimer
                    /\ \A i \in DOMAIN beings[b].particles :
                          beings'[b].particles[i].opacity
                              = beings[b].particles[i].opacity]_vars

\* The frame part of C17 alone: positions, targets, opacities, states and
\* timers are unchanged by applyMouseInfluence.
MouseInfluenceChangesVelocityOnly ==
    [][\A mouseY \in MouseYs, strength \in Strengths :
          KinMouseWith(mouseY, strength) =>
              /\ \A id \in DOMAIN kin :
                    kin'[id] = [kin[id] EXCEPT !.vy = kin'[id].vy]
              /\ \A b \in DOMAIN beings :
                    /\ beings'[b].state = beings[b].state
                    /\ beings'[b].stateTimer = beings[b].stateTimer
                    /\ \A i \in DOMAIN beings[b].particles :
                          beings'[b].particles[i].opacity
                              = beings[b].particles[i].opacity]_vars

\* C18 (as claimed): an update call strictly decreases the distance from the
\* anchor of every particle that is farther than 25 from it.
C18_ContainmentConvergence ==
    [][caller'.log = Append(caller.log, "update") =>
          \A id \in DOMAIN kin :
              Abs(kin[id].y - kin[id].baseY) > 25000 =>
                  Abs(kin'[id].y - kin[id].baseY) < Abs(kin[id].y - kin[id].baseY)]_vars

\* C19 (as claimed): once a being has been stable for at least 2 s of
\* simulated time, its particles are within a small distance (here one
\* unit) of their formed target, whatever the anchor.
C19_SettledInStable ==
    \A id \in DOMAIN kin :
        (/\ beings[kin[id].being].state = "stable"
         /\ beings[kin[id].being].stateTimer >= 2)
            => Abs(kin[id].y - kin[id].targetY) <= 1000

\* C24 (as claimed): while a being is dissolving, the progress used is
\* stateTimer / stateTimings.dissolving clamped to [0, 1]: the target opacity
\* of its particles is never negative and the target of a particle lies
\* between its formed target and its scattered target.
C24_DissolveProgressClamped ==
    \A b \in DOMAIN beings :
        (beings[b].state = "dissolving"
         /\ TimingDefined(beings[b].options, "dissolving")) =>
            /\ \A i \in DOMAIN beings[b].particles :
                  TargetOpacity(beings[b].particles[i], beings[b]) >= 0
            /\ \A id \in DOMAIN kin :
                  kin[id].being = b =>
                      LET target == TargetY(kin[id], beings[b], 0)
                      IN  /\ Min(kin[id].targetY, kin[id].scatteredY) <= target
                          /\ target <= Max(kin[id].targetY, kin[id].scatteredY)

\* The same while stateTimer is within the nominal duration.
DissolveProgressInRangeWithinNominal ==
    \A b \in DOMAIN beings :
        (/\ beings[b].state = "dissolving"
         /\ TimingDefined(beings[b].options, "dissolving")
         /\ beings[b].stateTimer <= beings[b].options["stateTimings"]["dissolving"]) =>
            /\ \A i \in DOMAIN beings[b].particles :
                  TargetOpacity(beings[b].particles[i], beings[b]) >= 0
            /\ \A id \in DOMAIN kin :
                  kin[id].being = b =>
                      LET target == TargetY(kin[id], beings[b], 0)
                      IN  /\ Min(kin[id].targetY, kin[id].scatteredY) <= target
                          /\ target <= Max(kin[id].targetY, kin[id].scatteredY)

\* C27 (as claimed): whatever the anchor, a particle spawns at its scattered
\* target, and the offset of the scattered target from the anchor lies in
\* one fixed box: on the vertical axis, within the 15 units of the draw.
C27_ScatterAroundAnchor ==
    [][KinConvert =>
          \A id \in DOMAIN kin' :
              /\ kin'[id].y = kin'[id].scatteredY
              /\ kin'[id].scatteredY - kin'[id].baseY >= 0
              /\ kin'[id].scatteredY - kin'[id].baseY < 15000]_vars

\* What createParticle does on the vertical axis: the particle spawns at its
\* scattered target, which lies between 0 and 15 whatever the anchor is.
ScatterHeightIgnoresAnchor ==
    [][KinConvert =>
          \A id \in DOMAIN kin' :
              /\ kin'[id].y = kin'[id].scatteredY
              /\ kin'[id].scatteredY >= 0
              /\ kin'[id].scatteredY < 15000]_vars

\* A particle made at the anchor below the origin.
LowAnchorMade == \E id \in DOMAIN kin : kin[id].baseY = -15000

----------------------------------------------------------------------------
(* DriftSpec: one ambient particle in motion.  It is created at a face or   *)
(* in the middle of the box, with velocity and drift at the ends of their   *)
(* ranges, and updated until the clock reaches ClockCap.                    *)

DriftDraws ==
    [x : {-30000, 0, 29999}, y : {0, 19999},
     vx : {-40, 39}, vy : {-20, 19},
     dx : {-8, 8}, dy : {-4, 4}]

DriftCreate ==
    /\ ambientParticles = <<>>
    /\ time = 0
    /\ createAmbientParticles(<<1>>, <<100, 299>>)
    /\ \E draw \in DriftDraws : kin' = [id \in {FreeId} |-> createAmbientMotion(draw)]
    /\ UNCHANGED caller

DriftUpdate ==
    /\ ambientParticles # <<>>
    /\ \E deltaTime \in {1, MaxDt} :
           /\ time + deltaTime <= ClockCap
           /\ update(deltaTime, <<>>, <<200, 200>>, <<0, 100>>)
    /\ kin' = [id \in DOMAIN kin |-> updateAmbientMotion(kin[id])]
    /\ UNCHANGED caller

DriftNext == DriftCreate \/ DriftUpdate

DriftSpec == Init /\ [][DriftNext]_vars

\* C20: in an update, an ambient particle moved beyond a face of the box is
\* put on the opposite face (x beyond 30 to -30, beyond -30 to 30; y above 20
\* to 0, below 0 to 20) and otherwise stays where the move put it; its
\* velocity after the update is the damped velocity it moved with, wrapped or
\* not; and every ambient particle is inside the box in every state.
C20_AmbientWrap ==
    /\ [](\A id \in DOMAIN kin :
             /\ -30000 <= kin[id].x /\ kin[id].x <= 30000
             /\ 0 <= kin[id].y /\ kin[id].y <= 20000)
    /\ [][time' # time =>
             \A id \in DOMAIN kin :
                 LET motion == kin[id]
                     movedX == motion.x + motion.vx + motion.dx
                     movedY == motion.y + motion.vy + motion.dy
                 IN  /\ kin'[id].x = CASE movedX > 30000 -> -30000
                                       [] movedX < -30000 -> 30000
                                       [] OTHER -> movedX
                     /\ kin'[id].y = CASE movedY > 20000 -> 0
                                       [] movedY < 0 -> 20000
                                       [] OTHER -> movedY
                     /\ kin'[id].vx = Scale(motion.vx + motion.dx, 98, 100)
                     /\ kin'[id].vy = Scale(motion.vy + motion.dy, 98, 100)
                     /\ Sign(kin'[id].vx) \in {0, Sign(motion.vx + motion.dx)}
                     /\ Sign(kin'[id].vy) \in {0, Sign(motion.vy + motion.dy)}]_vars

\* C20 witness: after updates, an ambient particle that left the box through
\* the face x = 30 and through the floor y = 0 is at x = -30 and y = 20, still
\* moving toward larger x and smaller y.
C20_Witness ==
    /\ time > 0
    /\ \E id \in DOMAIN kin :
           /\ kin[id].x = -30000 /\ kin[id].vx > 0
           /\ kin[id].y = 20000 /\ kin[id].vy < 0

----------------------------------------------------------------------------
(* HomeSpec: several beings in motion.  Up to MaxBeings beings are made    *)
(* from a one-vertex buffer at the anchor (0, -15, 0), at any time; the    *)
(* first particle of each is tracked; ambient particles are created once;  *)
(* update and applyMouseInfluence are called in between.  At most MaxCalls *)
(* calls are made.                                                         *)

HomeConvert ==
    /\ Len(caller.log) < MaxCalls
    /\ Len(beings) < MaxBeings
    /\ convertToParticleBeing([kind |-> "buffer", count |-> 1],
                              CountOption(1), "lo", <<999, 999>>)
    /\ \E scatter \in ScatterDraws :
           kin' = [id \in DOMAIN kin \cup {FreeId} |->
                      IF id = FreeId
                      THEN createParticleMotion(Len(beings) + 1, 0, -15000, scatter)
                      ELSE kin[id]]
    /\ caller' = Logged("convertToParticleBeing")

HomeCreateAmbient ==
    /\ Len(caller.log) < MaxCalls
    /\ ambientParticles = <<>>
    /\ createAmbientParticles(<<1>>, <<100, 299>>)
    /\ caller' = Logged("createAmbientParticles")
    /\ UNCHANGED kin

HomeNext == HomeConvert \/ HomeCreateAmbient \/ KinUpdate \/ KinMouse

HomeSpec == Init /\ [][HomeNext]_vars

\* C21: the formed target and the scattered target a particle was given when
\* it was made are changed by no later call: update in any state,
\* applyMouseInfluence, convertToParticleBeing, createAmbientParticles.
C21_TargetsNeverChange ==
    [][\A id \in DOMAIN kin :
          /\ id \in DOMAIN kin'
          /\ kin'[id].targetY = kin[id].targetY
          /\ kin'[id].scatteredY = kin[id].scatteredY]_vars

\* C21 witness: a particle has left its scattered position, its being has
\* been updated into stable and pushed by the mouse, a second being and an
\* ambient particle were made after it, and its two targets are the ones
\* createParticle gave it.
C21_Witness ==
    /\ Len(beings) = 2
    /\ ambientParticles # <<>>
    /\ beings[1].state = "stable"
    /\ beings[1].particles[1].pushed
    /\ \E id \in DOMAIN kin :
           /\ kin[id].being = 1
           /\ kin[id].y # kin[id].scatteredY
           /\ kin[id].scatteredY \in ScatterDraws
           /\ kin[id].targetY = -13000

----------------------------------------------------------------------------
(* PhaseSpec: the phases.  Up to MaxBeings beings of one or two particles  *)
(* are made with speedMultiplier 1 or 2 and the draws of phase and speed   *)
(* at the ends of their ranges, and updated with steps of 0, 1 and MaxDt   *)
(* seconds until the clock reaches TimerCap.                               *)

SpeedOption(multiplier) == [k \in {"speedMultiplier"} |-> multiplier]

PhaseOptions ==
    {CountOption(1), Merge(CountOption(1), SpeedOption(2000))}

\* Math.random() * Math.PI * 2 and Math.random() * 0.2, in thousandths.
PhaseDraws == {<<0, 0>>, <<6283, 199>>}

PhaseConvert ==
    /\ Len(beings) < MaxBeings
    /\ \E mesh \in {NullMesh, [kind |-> "buffer", count |-> 1]},
          customOptions \in PhaseOptions, draw \in PhaseDraws :
           /\ convertToParticleBeing(mesh, customOptions, "lo", <<999, 999>>)
           /\ kin' = [b \in DOMAIN kin \cup {Len(beings) + 1} |->
                         IF b \in DOMAIN kin THEN kin[b]
                         ELSE createBeingPhase(Merge(options, customOptions),
                                               draw[1], draw[2])]
    /\ UNCHANGED caller

PhaseDts == {0, 1, MaxDt}

\* update(deltaTime), over every jitter.
PhaseUpdateWith(deltaTime) ==
    /\ time + deltaTime <= TimerCap
    /\ \E jitter \in Jitters : update(deltaTime, jitter, <<200, 200>>, <<0, 0>>)
    /\ kin' = [b \in DOMAIN kin |-> updateBeingPhase(kin[b], deltaTime)]
    /\ UNCHANGED caller

PhaseUpdate == \E deltaTime \in PhaseDts : PhaseUpdateWith(deltaTime)

PhaseNext == PhaseConvert \/ PhaseUpdate

PhaseSpec == Init /\ [][PhaseNext]_vars

\* C25 (as claimed): an update(dt) call advances the clock by exactly dt and
\* the transformationPhase of every being, once, by speedMultiplier * dt; for
\* dt >= 0 no transformationPhase decreases.
C25_PhaseAdvancesBySpeedMultiplier ==
    [][\A deltaTime \in PhaseDts : PhaseUpdateWith(deltaTime) =>
          /\ time' = time + deltaTime
          /\ \A b \in DOMAIN beings :
                /\ kin'[b].transformationPhase
                      = kin[b].transformationPhase
                        + beings[b].options["speedMultiplier"] * deltaTime
                /\ kin'[b].transformationPhase >= kin[b].transformationPhase]_vars

\* What update does to the phase: it advances it once per being by
\* transformationSpeed * dt, whatever the number of particles, advances the
\* clock by dt, and never decreases a phase.
PhaseAdvancesByTransformationSpeed ==
    [][\A deltaTime \in PhaseDts : PhaseUpdateWith(deltaTime) =>
          /\ time' = time + deltaTime
          /\ \A b \in DOMAIN beings :
                /\ kin'[b].transformationPhase
                      = kin[b].transformationPhase
                        + kin[b].transformationSpeed * deltaTime
                /\ kin'[b].transformationPhase >= kin[b].transformationPhase
                /\ kin'[b].transformationSpeed = kin[b].transformationSpeed]_vars

----------------------------------------------------------------------------
(* ForceSpec: the attraction.  One being of one particle is made from a    *)
(* one-vertex buffer at the origin, with the default attraction            *)
(* coefficients or with coefficients of which two are 0, and updated up to *)
(* MaxCalls times.  A vertex at y = 1 puts the forming target on a         *)
(* particle that spawns at y = 3.                                          *)

ForceOption(forces) == [k \in {"attractionForces"} |-> forces]

\* attractionForces of the custom options, in thousandths.
ZeroForces ==
    [s \in States |->
        CASE s = "forming" -> 0
          [] s = "stable" -> 24
          [] s = "dissolving" -> 0
          [] OTHER -> 4]

ForceOptions ==
    {CountOption(1), Merge(CountOption(1), ForceOption(ZeroForces))}

ForceVertexYs == {1000, 40000}

ForceConvert ==
    /\ beings = <<>>
    /\ caller.log = <<>>
    /\ \E customOptions \in ForceOptions, pointY \in ForceVertexYs,
          scatter \in ScatterDraws :
           /\ convertToParticleBeing([kind |-> "buffer", count |-> 1],
                                     customOptions, "lo", <<999, 999>>)
           /\ kin' = [id \in {FreeId} |->
                         createParticleMotion(Len(beings) + 1, pointY, 0, scatter)]
    /\ caller' = Logged("convertToParticleBeing")

\* update(deltaTime) with the sines waves, over every jitter.
ForceUpdateWith(deltaTime, waves) ==
    /\ beings # <<>>
    /\ Len(caller.log) < MaxCalls
    /\ \E jitter \in Jitters : update(deltaTime, jitter, <<200, 200>>, <<0, 0>>)
    /\ kin' = [id \in DOMAIN kin |->
                  updateParticleMotion(kin[id], beings'[kin[id].being], waves)]
    /\ caller' = Logged("update")

ForceUpdate ==
    \E deltaTime \in KinDts, waves \in KinWaves : ForceUpdateWith(deltaTime, waves)

ForceNext == ForceConvert \/ ForceUpdate

ForceSpec == Init /\ [][ForceNext]_vars

\* The attraction one update call adds to the velocity of particle id, the
\* being having taken its step of the call.
Pull(id, beingData, waves) ==
    Attracted(kin[id], beingData, waves.phase) - kin[id].vy

\* The distance from the particle to the target of the call.
TargetDistance(id, beingData, waves) ==
    Abs(TargetY(kin[id], beingData, waves.phase) - kin[id].y)

\* C26 (as claimed): in every state, the attraction an update adds to a
\* particle's velocity has magnitude attractionForces[state] * min(dist, 5)
\* with the coefficient configured for the state, 0 included, and is nothing
\* when dist is not greater than 0.1.
C26_ConfiguredCoefficientUsed ==
    [][\A deltaTime \in KinDts, waves \in KinWaves :
          ForceUpdateWith(deltaTime, waves) =>
              \A id \in DOMAIN kin :
                  LET beingData == beings'[kin[id].being]
                      distance == TargetDistance(id, beingData, waves)
                      coefficient ==
                          beingData.options["attractionForces"][beingData.state]
                  IN  Abs(Pull(id, beingData, waves))
                        = IF distance > 100
                          THEN Scale(coefficient * Min(distance, 5000), 1, 1000)
                          ELSE 0]_vars

\* What the code does: a coefficient other than 0 is used as configured, a
\* coefficient of 0 is replaced by 0.02, and no attraction is added when
\* dist is not greater than 0.1.
ZeroCoefficientReplaced ==
    [][\A deltaTime \in KinDts, waves \in KinWaves :
          ForceUpdateWith(deltaTime, waves) =>
              \A id \in DOMAIN kin :
                  LET beingData == beings'[kin[id].being]
                      distance == TargetDistance(id, beingData, waves)
                      configured ==
                          beingData.options["attractionForces"][beingData.state]
                      coefficient == IF configured = 0 THEN 20 ELSE configured
                  IN  Abs(Pull(id, beingData, waves))
                        = IF distance > 100
                          THEN Scale(coefficient * Min(distance, 5000), 1, 1000)
                          ELSE 0]_vars

\* A particle on its target in a being that has been updated.
OnTargetReached ==
    /\ LastCall("update")
    /\ \E id \in DOMAIN kin, waves \in KinWaves :
           TargetDistance(id, beings[kin[id].being], waves) <= 100

----------------------------------------------------------------------------
(* IndexSpec: the calling program of LoggedSpec, making beings of one      *)
(* particle (no source) and of two particles (a one-vertex buffer).        *)

IndexConvert ==
    /\ Len(caller.log) < MaxCalls
    /\ Len(beings) < MaxBeings
    /\ \E mesh \in {NullMesh, [kind |-> "buffer", count |-> 1]} :
           convertToParticleBeing(mesh, CountOption(mesh.count + 1), "lo", <<999, 999>>)
    /\ caller' = Logged("convertToParticleBeing")
    /\ UNCHANGED kin

IndexNext ==
    \/ IndexConvert
    \/ LoggedCreateAmbient
    \/ LoggedUpdate
    \/ LoggedMouseInfluence
    \/ LoggedDispose

IndexSpec == Init /\ [][IndexNext]_vars

\* C28: after any sequence of calls, the index of every registered being is
\* its position in beings (from 0), each of its particles has that number
\* as beingIndex, and the particleIndex of each particle is its position in
\* the being's particles (from 0).
C28_RegistryIndices ==
    \A b \in DOMAIN beings :
        /\ beings[b].index = b - 1
        /\ \A i \in DOMAIN beings[b].particles :
              /\ beings[b].particles[i].beingIndex = b - 1
              /\ beings[b].particles[i].particleIndex = i - 1

\* Two beings, the second of two particles, made after a dispose that
\* released a being, and updated since.
C28_Witness ==
    /\ caller.log = <<"convertToParticleBeing", "dispose",
                      "convertToParticleBeing", "convertToParticleBeing", "update">>
    /\ Len(caller.released) = 1
    /\ Len(beings) = 2
    /\ Len(beings[2].particles) = 2

====
